---------------------------- MODULE Spec2Model ----------------------------
(***************************************************************************)
(* A model of sab_monitarr (src/main.go): configuration resolution, the    *)
(* startup sequence of main, the request path (logging middleware, the     *)
(* ServeMux routes, the index and status handlers) and the upstream        *)
(* client fetchSabnzbdStatus.                                               *)
(*                                                                         *)
(* Text is modelled as a sequence of pieces.  Text that comes from the     *)
(* outside (environment values, URLs, keys, addresses, headers) is one     *)
(* character per piece; a literal of the program is one piece.             *)
(***************************************************************************)
EXTENDS Integers, Sequences, FiniteSets, TLC

VARIABLES
    env,        \* the process environment: the five SABMON_* variables
    file,       \* config.json as found in the working directory
    world,      \* what main finds: templates on disk, port 5959 free, and how
                \* the SABnzbd server behaves
    pc,         \* position of main: start, loaded, routed, serving, exited
    exit,       \* how the process ended: none, config, panic, listen
    config,     \* main's config, the value LoadConfig returned
    loadErr,    \* the error LoadConfig returned
    routes,     \* the patterns registered on the mux
    log,        \* the lines written through package log, in order
    reqs,       \* the requests: inputs, position, upstream reply, response
    accepted,   \* number of requests accepted so far
    calls,      \* upstream GETs issued, per request
    ipIn,       \* a request handed to getClientIP on its own
    ipOut       \* what getClientIP returned for it

vars == <<env, file, world, pc, exit, config, loadErr, routes, log, reqs,
          accepted, calls, ipIn, ipOut>>

----------------------------------------------------------------------------
(* Bounds of the model *)

\* requests served in one run of the process
MaxRequests == 2
\* longest SABMON_REFRESH_INTERVAL value tried when resolving configuration
MaxEnvLen == 2

----------------------------------------------------------------------------
(* package strings / strconv, as the program uses them *)

NoErr == <<>>

Digits == <<"0", "1", "2", "3", "4", "5", "6", "7", "8", "9">>

IsDigit(c) == \E i \in 1..10 : Digits[i] = c

DigitVal(c) == (CHOOSE i \in 1..10 : Digits[i] = c) - 1

RECURSIVE DigitsVal(_)
DigitsVal(s) ==
    IF s = <<>> THEN 0
    ELSE 10 * DigitsVal(SubSeq(s, 1, Len(s) - 1)) + DigitVal(s[Len(s)])

\* strconv.Atoi: an optional sign, then one or more decimal digits
Atoi(s) ==
    LET signed == s # <<>> /\ s[1] \in {"+", "-"}
        body   == IF signed THEN Tail(s) ELSE s
    IN  IF body # <<>> /\ \A i \in 1..Len(body) : IsDigit(body[i])
        THEN [ok |-> TRUE,
              val |-> IF signed /\ s[1] = "-" THEN 0 - DigitsVal(body)
                      ELSE DigitsVal(body)]
        ELSE [ok |-> FALSE, val |-> 0]

RECURSIVE NatDigits(_)
NatDigits(n) ==
    IF n < 10 THEN <<Digits[n + 1]>>
    ELSE NatDigits(n \div 10) \o <<Digits[(n % 10) + 1]>>

\* the %d verb
Itoa(n) == IF n < 0 THEN <<"-">> \o NatDigits(0 - n) ELSE NatDigits(n)

\* the %v verb of a bool
BoolStr(b) == IF b THEN <<"true">> ELSE <<"false">>

UpperCase == <<"A", "B", "C", "D", "E", "F", "G", "H", "I", "J", "K", "L", "M",
               "N", "O", "P", "Q", "R", "S", "T", "U", "V", "W", "X", "Y", "Z">>
LowerCase == <<"a", "b", "c", "d", "e", "f", "g", "h", "i", "j", "k", "l", "m",
               "n", "o", "p", "q", "r", "s", "t", "u", "v", "w", "x", "y", "z">>

\* strings.ToLower
ToLower(s) ==
    [i \in 1..Len(s) |->
        IF \E j \in 1..26 : UpperCase[j] = s[i]
        THEN LowerCase[CHOOSE j \in 1..26 : UpperCase[j] = s[i]]
        ELSE s[i]]

\* where sub occurs in s
Occurrences(s, sub) ==
    {i \in 1..(Len(s) - Len(sub) + 1) : SubSeq(s, i, i + Len(sub) - 1) = sub}

\* strings.Contains
Contains(s, sub) == sub = <<>> \/ Occurrences(s, sub) # {}

Min(S) == CHOOSE x \in S : \A y \in S : x <= y

\* strings.Replace(s, old, new, 1): the first occurrence only
ReplaceFirst(s, old, new) ==
    IF old = <<>> THEN new \o s
    ELSE IF Occurrences(s, old) = {} THEN s
    ELSE LET i == Min(Occurrences(s, old))
         IN  SubSeq(s, 1, i - 1) \o new \o SubSeq(s, i + Len(old), Len(s))

\* strings.Split(s, sep)[0] for a one-character sep
SplitFirst(s, sep) ==
    IF Occurrences(s, <<sep>>) = {} THEN s
    ELSE SubSeq(s, 1, Min(Occurrences(s, <<sep>>)) - 1)

----------------------------------------------------------------------------
(* Config, LoadConfig, validateConfig *)

EnvSabnzbdURL == "SABMON_SABNZBD_URL"
EnvSabnzbdAPIKey == "SABMON_SABNZBD_API_KEY"
EnvRefreshInterval == "SABMON_REFRESH_INTERVAL"

\* the zero value of Config
ZeroConfig ==
    [SabnzbdURL |-> <<>>, SabnzbdAPIKey |-> <<>>, RefreshInterval |-> 0,
     Debug |-> FALSE, LogClientInfo |-> FALSE]

DefaultRefresh == 5

validateConfig_NoKeyCheck(c) ==
    IF c.SabnzbdURL = <<>>
    THEN [config |-> c, lines |-> <<>>,
          err |-> <<"sabnzbd URL is required (set via config or ", EnvSabnzbdURL, ")">>]
    ELSE IF c.RefreshInterval <= 0
    THEN [config |-> [c EXCEPT !.RefreshInterval = DefaultRefresh], err |-> NoErr,
          lines |-> << <<"Invalid refresh interval, defaulting to 5 seconds">> >>]
    ELSE [config |-> c, err |-> NoErr, lines |-> <<>>]

validateConfig_NoDefault(c) ==
    IF c.SabnzbdURL = <<>>
    THEN [config |-> c, lines |-> <<>>,
          err |-> <<"sabnzbd URL is required (set via config or ", EnvSabnzbdURL, ")">>]
    ELSE IF c.SabnzbdAPIKey = <<>>
    THEN [config |-> c, lines |-> <<>>,
          err |-> <<"sabnzbd API key is required (set via config or ",
                    EnvSabnzbdAPIKey, ")">>]
    ELSE IF c.RefreshInterval < 0
    THEN [config |-> [c EXCEPT !.RefreshInterval = DefaultRefresh], err |-> NoErr,
          lines |-> << <<"Invalid refresh interval, defaulting to 5 seconds">> >>]
    ELSE [config |-> c, err |-> NoErr, lines |-> <<>>]

\* validateConfig(config *Config) error: the error, the config as it leaves
\* it, and the lines it logs
validateConfig(c) ==
    IF c.SabnzbdURL = <<>>
    THEN [config |-> c, lines |-> <<>>,
          err |-> <<"sabnzbd URL is required (set via config or ", EnvSabnzbdURL, ")">>]
    ELSE IF c.SabnzbdAPIKey = <<>>
    THEN [config |-> c, lines |-> <<>>,
          err |-> <<"sabnzbd API key is required (set via config or ",
                    EnvSabnzbdAPIKey, ")">>]
    ELSE IF c.RefreshInterval <= 0
    THEN [config |-> [c EXCEPT !.RefreshInterval = DefaultRefresh], err |-> NoErr,
          lines |-> << <<"Invalid refresh interval, defaulting to 5 seconds">> >>]
    ELSE [config |-> c, err |-> NoErr, lines |-> <<>>]

\* envDebug == "1" || strings.ToLower(envDebug) == "true"
EnvBool(s) == s = <<"1">> \/ ToLower(s) = <<"t", "r", "u", "e">>

ApplyEnv_FileWins(c, e) ==
    [SabnzbdURL      |-> IF c.SabnzbdURL # <<>> THEN c.SabnzbdURL ELSE e.url,
     SabnzbdAPIKey   |-> IF e.key # <<>> THEN e.key ELSE c.SabnzbdAPIKey,
     RefreshInterval |-> IF e.refresh # <<>> /\ Atoi(e.refresh).ok
                         THEN Atoi(e.refresh).val ELSE c.RefreshInterval,
     Debug           |-> IF e.debug # <<>> THEN EnvBool(e.debug) ELSE c.Debug,
     LogClientInfo   |-> IF e.lci # <<>> THEN EnvBool(e.lci) ELSE c.LogClientInfo]

\* the environment overlay of LoadConfig
ApplyEnv(c, e) ==
    [SabnzbdURL      |-> IF e.url # <<>> THEN e.url ELSE c.SabnzbdURL,
     SabnzbdAPIKey   |-> IF e.key # <<>> THEN e.key ELSE c.SabnzbdAPIKey,
     RefreshInterval |-> IF e.refresh # <<>> /\ Atoi(e.refresh).ok
                         THEN Atoi(e.refresh).val ELSE c.RefreshInterval,
     Debug           |-> IF e.debug # <<>> THEN EnvBool(e.debug) ELSE c.Debug,
     LogClientInfo   |-> IF e.lci # <<>> THEN EnvBool(e.lci) ELSE c.LogClientInfo]

\* the warning for a SABMON_REFRESH_INTERVAL that is no number
ApplyEnvLines(e) ==
    IF e.refresh # <<>> /\ ~Atoi(e.refresh).ok
    THEN << <<"Warning: Invalid ", EnvRefreshInterval, " value '">> \o e.refresh
            \o <<"', must be a number">> >>
    ELSE <<>>

\* what reading config.json leaves behind: the config decoded, configLoaded,
\* configErr and the lines logged
ReadConfigFile(f) ==
    CASE f.state = "nocwd" ->
            [config |-> ZeroConfig, loaded |-> FALSE, err |-> NoErr,
             lines |-> << <<"Warning: Could not get current working directory:">> >>]
      [] f.state = "missing" ->
            [config |-> ZeroConfig, loaded |-> FALSE,
             err |-> <<"could not open config file: ", "no such file">>,
             lines |-> <<>>]
      [] f.state = "unparsable" ->
            [config |-> f.cfg, loaded |-> FALSE,
             err |-> <<"could not parse config file: ", "json error">>,
             lines |-> <<>>]
      [] OTHER ->
            [config |-> f.cfg, loaded |-> TRUE, err |-> NoErr,
             lines |-> << <<"Config loaded from ", "config.json">> >>]

LoadConfig_FileErrorFatal(f, e) ==
    LET rd  == ReadConfigFile(f)
        pre == ApplyEnv(rd.config, e)
        v   == validateConfig(pre)
        l0  == rd.lines \o ApplyEnvLines(e)
    IN  IF v.err # NoErr
        THEN [config |-> pre, err |-> v.err, lines |-> l0]
        ELSE IF ~rd.loaded /\ rd.err # NoErr
        THEN [config |-> v.config, err |-> rd.err, lines |-> l0 \o v.lines]
        ELSE [config |-> v.config, err |-> NoErr, lines |-> l0 \o v.lines]

\* LoadConfig() (Config, error), with the lines it logs
LoadConfig(f, e) ==
    LET rd  == ReadConfigFile(f)
        pre == ApplyEnv(rd.config, e)
        v   == validateConfig(pre)
        l0  == rd.lines \o ApplyEnvLines(e)
    IN  IF v.err # NoErr
        THEN [config |-> pre, err |-> v.err, lines |-> l0]
        ELSE [config |-> v.config, err |-> NoErr,
              lines |-> l0 \o v.lines \o
                  (IF ~rd.loaded /\ rd.err # NoErr
                   THEN << <<"No environment variables set and config file couldn't be loaded:">>
                           \o rd.err >>
                   ELSE <<>>)]

----------------------------------------------------------------------------
(* getClientIP, debugLog *)

\* a *http.Request that is nil
NilRequest ==
    [present |-> FALSE, method |-> "", path |-> <<>>, xff |-> <<>>, addr |-> <<>>]

\* getClientIP(r *http.Request) string; xff is r.Header.Get("X-Forwarded-For"),
\* empty when the header is absent
getClientIP(r) ==
    IF r.xff # <<>> THEN SplitFirst(r.xff, ",")
    ELSE IF Contains(r.addr, <<":">>) THEN SplitFirst(r.addr, ":")
    ELSE r.addr

RECURSIVE PathText(_)
\* the text of a path held as its segments: / before each segment
PathText(p) ==
    IF p = <<>> THEN <<>> ELSE <<"/">> \o (IF p[1] = "" THEN <<>> ELSE <<p[1]>>)
                                \o PathText(Tail(p))

debugLog_QuietWithoutDebug(debug, level, message, r, logClientInfo) ==
    IF ~debug THEN <<>>
    ELSE << <<"[", level, "] ">> \o message >> \o
         (IF logClientInfo /\ r.present
          THEN << <<"  Client: ">> \o getClientIP(r) \o <<", User-Agent: ", "ua", ", URI: ">>
                  \o PathText(r.path) >>
          ELSE <<>>)

\* debugLog(debug, level, message, r, logClientInfo): the lines it writes
debugLog(debug, level, message, r, logClientInfo) ==
    IF ~debug /\ level = "DEBUG" THEN <<>>
    ELSE << <<"[", level, "] ">> \o message >> \o
         (IF logClientInfo /\ r.present
          THEN << <<"  Client: ">> \o getClientIP(r) \o <<", User-Agent: ", "ua", ", URI: ">>
                  \o PathText(r.path) >>
          ELSE <<>>)

\* the line of loggingMiddleware
MiddlewareLines(cfg, r) ==
    debugLog(cfg.Debug, "INFO", <<"Request: ", r.method, " ">> \o PathText(r.path),
             r, cfg.LogClientInfo)

----------------------------------------------------------------------------
(* main: startup logging *)

\* fmt.Sprintf("%+v", config)
ConfigText(c) ==
    <<"{SabnzbdURL:">> \o c.SabnzbdURL \o <<" SabnzbdAPIKey:">> \o c.SabnzbdAPIKey
    \o <<" RefreshInterval:">> \o Itoa(c.RefreshInterval)
    \o <<" Debug:">> \o BoolStr(c.Debug)
    \o <<" LogClientInfo:">> \o BoolStr(c.LogClientInfo) \o <<"}">>

Redacted == <<"[REDACTED]">>

\* the lines main writes after LoadConfig succeeded
StartupLines(c) ==
    debugLog(TRUE, "INFO", <<"Application starting">>, NilRequest, FALSE) \o
    (IF c.Debug
     THEN debugLog(TRUE, "INFO",
                   <<"Configuration: ">>
                   \o ReplaceFirst(ConfigText(c), c.SabnzbdAPIKey, Redacted),
                   NilRequest, FALSE)
     ELSE <<>>)

\* log.Fatalf("Configuration error: %v", err)
FatalConfigLine(err) == <<"Configuration error: ">> \o err

AppPort == <<"5", "9", "5", "9">>

----------------------------------------------------------------------------
(* net/http.ServeMux as main sets it up *)

\* a path is the sequence of its segments: / is <<"">>, /a/ is <<"a", "">>
Root == <<"">>

RECURSIVE CleanSegs(_, _)
\* path.Clean on the segments: drops empty and . segments, .. drops the one before
CleanSegs(p, acc) ==
    IF p = <<>> THEN acc
    ELSE IF p[1] \in {"", "."} THEN CleanSegs(Tail(p), acc)
    ELSE IF p[1] = ".."
    THEN CleanSegs(Tail(p), IF acc = <<>> THEN acc ELSE SubSeq(acc, 1, Len(acc) - 1))
    ELSE CleanSegs(Tail(p), Append(acc, p[1]))

\* http.cleanPath: path.Clean, with the trailing slash put back
cleanPath(p) ==
    LET np == CleanSegs(p, <<>>)
    IN  IF np = <<>> THEN Root
        ELSE IF p[Len(p)] = "" THEN Append(np, "") ELSE np

AllRoutes == {"/static/", "/", "/status"}

\* whether a registered pattern matches a clean path
PatternMatches(pat, p) ==
    CASE pat = "/status"  -> p = <<"status">>
      [] pat = "/static/" -> Len(p) >= 2 /\ p[1] = "static"
      [] OTHER            -> TRUE

\* the most specific registered pattern matching the path, "" when none does
MatchPattern(rt, p) ==
    IF "/status" \in rt /\ PatternMatches("/status", p) THEN "/status"
    ELSE IF "/static/" \in rt /\ PatternMatches("/static/", p) THEN "/static/"
    ELSE IF "/" \in rt THEN "/"
    ELSE ""

\* ServeMux's redirect of /tree to /tree/ when only the subtree is registered
SubtreeRedirect(rt, p) ==
    /\ p[Len(p)] # ""
    /\ MatchPattern(rt, p) # "/status"
    /\ "/static/" \in rt
    /\ Append(p, "") = <<"static", "">>

Dispatch_StatusPrefix(rt, p) ==
    LET cp == cleanPath(p)
    IN  IF SubtreeRedirect(rt, cp) THEN [kind |-> "redirect", to |-> Append(cp, "")]
        ELSE IF cp # p THEN [kind |-> "redirect", to |-> cp]
        ELSE IF p[1] = "status" THEN [kind |-> "handler", to |-> <<"/status">>]
        ELSE [kind |-> "handler", to |-> <<MatchPattern(rt, p)>>]

\* ServeMux.Handler: a redirect, or the handler of the matching pattern
Dispatch(rt, p) ==
    LET cp == cleanPath(p)
    IN  IF SubtreeRedirect(rt, cp) THEN [kind |-> "redirect", to |-> Append(cp, "")]
        ELSE IF cp # p THEN [kind |-> "redirect", to |-> cp]
        ELSE [kind |-> "handler", to |-> <<MatchPattern(rt, p)>>]

\* the files under static/
StaticFiles == {<<"css", "style.css">>}

NoResponse == [code |-> 0, body |-> <<>>, tmpl |-> "", data |-> <<>>]

RedirectResponse(to) ==
    [code |-> 301, body |-> <<"Moved Permanently: ">> \o PathText(to), tmpl |-> "",
     data |-> <<>>]

\* http.NotFound
NotFoundResponse ==
    [code |-> 404, body |-> <<"404 page not found">>, tmpl |-> "", data |-> <<>>]

\* http.StripPrefix("/static/", http.FileServer(http.Dir("static")))
StaticResponse(p) ==
    IF Tail(p) \in StaticFiles \/ Tail(p) = Root
    THEN [code |-> 200, body |-> <<"file ">> \o PathText(Tail(p)), tmpl |-> "",
          data |-> <<>>]
    ELSE NotFoundResponse

\* the response of the / handler
IndexResponse(cfg, r) ==
    IF r.path # Root THEN NotFoundResponse
    ELSE [code |-> 200, body |-> <<>>, tmpl |-> "index.html",
          data |-> <<cfg.RefreshInterval, cfg.Debug>>]

IndexLines(cfg, r) ==
    IF r.path # Root THEN <<>>
    ELSE debugLog(cfg.Debug, "INFO", <<"Serving index page">>, r, cfg.LogClientInfo)

----------------------------------------------------------------------------
(* The upstream reply and encoding/json's Decoder *)

(***************************************************************************)
(* An upstream reply is a connection failure, a timeout before the         *)
(* response headers, or a response: a status code and a body.  A body is   *)
(* the pieces delivered before the read ended (data) and how it ended      *)
(* (term): EOF, or ERR for a read that failed (the connection was reset,   *)
(* or the client timeout fired while the body was being sent).  The        *)
(* pieces of a body: { and } open and close the top-level object, s is a   *)
(* well-typed "status" member, q a well-typed "queue" member with one      *)
(* slot, t a member of the wrong type, null the literal, " " white space   *)
(* and x a character no JSON value begins with.                            *)
(***************************************************************************)

\* a *SabnzbdStatus is a sequence: empty for nil, else the one value
NilStatus == <<>>

ZeroStatus == [Status |-> "", Slots |-> <<>>]

RECURSIVE TrimLeft(_)
TrimLeft(d) == IF d # <<>> /\ d[1] = " " THEN TrimLeft(Tail(d)) ELSE d

\* the first piece after the opening brace that is no member and no space
ObjectEnd(d) ==
    LET S == {j \in 2..Len(d) : d[j] \notin {"s", "q", "t", " "}}
    IN  IF S = {} THEN 0 ELSE Min(S)

\* json.Unmarshal of a scanned top-level object into a SabnzbdStatus
UnmarshalObject(members) ==
    IF \E j \in 1..Len(members) : members[j] = "t"
    THEN [status |-> NilStatus, err |-> <<"json: cannot unmarshal">>]
    ELSE [status |-> << [Status |-> IF \E j \in 1..Len(members) : members[j] = "s"
                                    THEN "ok" ELSE "",
                         Slots  |-> IF \E j \in 1..Len(members) : members[j] = "q"
                                    THEN <<[Filename |-> "test_file.mkv",
                                            Percentage |-> "75"]>>
                                    ELSE <<>>] >>,
          err |-> NoErr]

\* the error of a body that ended before the value did
IncompleteErr(term, sawNonSpace) ==
    IF term = "ERR" THEN <<"read error">>
    ELSE IF sawNonSpace THEN <<"unexpected EOF">> ELSE <<"EOF">>

(***************************************************************************)
(* json.NewDecoder(body).Decode(&status).  The decoder reads one value:    *)
(* an object is complete at its closing brace, and nothing after it is     *)
(* read; a literal is complete only at the piece after it, or at EOF.  A   *)
(* read error before the value is complete is the error of Decode.         *)
(***************************************************************************)
Decode(body) ==
    LET d == TrimLeft(body.data)
    IN  IF d = <<>>
        THEN [status |-> NilStatus, err |-> IncompleteErr(body.term, FALSE)]
        ELSE IF d[1] = "null"
        THEN IF Len(d) >= 2 \/ body.term = "EOF"
             THEN [status |-> <<ZeroStatus>>, err |-> NoErr]
             ELSE [status |-> NilStatus, err |-> IncompleteErr(body.term, TRUE)]
        ELSE IF d[1] = "{"
        THEN IF ObjectEnd(d) = 0
             THEN [status |-> NilStatus, err |-> IncompleteErr(body.term, TRUE)]
             ELSE IF d[ObjectEnd(d)] = "}"
             THEN UnmarshalObject(SubSeq(d, 2, ObjectEnd(d) - 1))
             ELSE [status |-> NilStatus, err |-> <<"invalid character">>]
        ELSE [status |-> NilStatus, err |-> <<"invalid character">>]

----------------------------------------------------------------------------
(* fetchSabnzbdStatus *)

NoReply == [kind |-> "none", code |-> 0, body |-> [data |-> <<>>, term |-> "EOF"]]

StatusOK == 200

\* the request URL
RequestURL(cfg) ==
    cfg.SabnzbdURL \o <<"/api?output=json&apikey=">> \o cfg.SabnzbdAPIKey
    \o <<"&mode=queue">>

\* fetchSabnzbdStatus up to client.Get: the lines it logs
FetchStartLines(cfg) ==
    IF cfg.Debug
    THEN debugLog(TRUE, "DEBUG",
                  <<"Requesting SABnzbd API: ">>
                  \o ReplaceFirst(RequestURL(cfg), cfg.SabnzbdAPIKey, Redacted),
                  NilRequest, FALSE)
    ELSE <<>>

\* the error client.Get returns: a *url.Error, whose text names the URL
GetError(cfg, reply) ==
    <<"Get \"">> \o RequestURL(cfg) \o <<"\": ">> \o
    (IF reply.kind = "timeout"
     THEN <<"context deadline exceeded (Client.Timeout exceeded while awaiting headers)">>
     ELSE <<"dial tcp: connect: connection refused">>)

\* resp.Status
StatusText(code) == Itoa(code) \o <<" ", "status text">>

FetchFinish_DecodeAnyStatus(cfg, reply) ==
    IF reply.kind # "resp"
    THEN [status |-> NilStatus, err |-> GetError(cfg, reply), bodyRead |-> FALSE,
          lines |-> debugLog(cfg.Debug, "ERROR",
                             <<"API request failed: ">> \o GetError(cfg, reply),
                             NilRequest, FALSE)]
    ELSE LET dec == Decode(reply.body)
         IN  [status |-> dec.status, err |-> dec.err, bodyRead |-> TRUE,
              lines |-> <<>>]

\* fetchSabnzbdStatus from the return of client.Get on: the status and error
\* it returns, whether it read the body, and the lines it logs
FetchFinish(cfg, reply) ==
    IF reply.kind # "resp"
    THEN [status |-> NilStatus, err |-> GetError(cfg, reply), bodyRead |-> FALSE,
          lines |-> debugLog(cfg.Debug, "ERROR",
                             <<"API request failed: ">> \o GetError(cfg, reply),
                             NilRequest, FALSE)]
    ELSE IF reply.code # StatusOK
    THEN [status |-> NilStatus, bodyRead |-> FALSE,
          err |-> <<"API returned non-OK status: ">> \o Itoa(reply.code),
          lines |-> debugLog(cfg.Debug, "ERROR",
                             <<"API returned non-OK status: ">> \o Itoa(reply.code),
                             NilRequest, FALSE)]
    ELSE LET \* with debug on, io.ReadAll buffers the body, its error dropped,
             \* and the decoder reads the buffer
             body == IF cfg.Debug THEN [data |-> reply.body.data, term |-> "EOF"]
                     ELSE reply.body
             dbg  == IF cfg.Debug
                     THEN debugLog(TRUE, "DEBUG",
                                   <<"API response received, status: ">>
                                   \o StatusText(reply.code) \o <<", length: ">>
                                   \o Itoa(Len(reply.body.data)) \o <<" bytes">>,
                                   NilRequest, FALSE)
                     ELSE <<>>
             dec  == Decode(body)
         IN  IF dec.err # NoErr
             THEN [status |-> NilStatus, err |-> dec.err, bodyRead |-> TRUE,
                   lines |-> dbg \o debugLog(cfg.Debug, "ERROR",
                                             <<"Failed to decode API response: ">>
                                             \o dec.err, NilRequest, FALSE)]
             ELSE [status |-> dec.status, err |-> NoErr, bodyRead |-> TRUE,
                   lines |-> dbg]

----------------------------------------------------------------------------
(* the /status handler *)

GenericError == <<"Failed to fetch status">>

\* the handler up to the call of client.Get
StatusStartLines(cfg, r) ==
    debugLog(cfg.Debug, "INFO", <<"Fetching SABnzbd status">>, r, cfg.LogClientInfo)
    \o FetchStartLines(cfg)

StatusFinish_LeakError(cfg, r, f) ==
    IF f.err # NoErr
    THEN [resp |-> [code |-> 500, body |-> f.err, tmpl |-> "", data |-> <<>>],
          lines |-> <<>>]
    ELSE [resp |-> [code |-> 200, body |-> <<>>, tmpl |-> "status.html",
                    data |-> f.status],
          lines |-> debugLog(cfg.Debug, "INFO", <<"SABnzbd status fetched successfully">>,
                             r, cfg.LogClientInfo)]

StatusFinish_NoReturn(cfg, r, f) ==
    IF f.err # NoErr
    THEN [resp |-> [code |-> 500, body |-> GenericError, tmpl |-> "status.html",
                    data |-> f.status],
          lines |-> debugLog(cfg.Debug, "ERROR", <<"Failed to fetch status: ">> \o f.err,
                             r, cfg.LogClientInfo)
                    \o debugLog(cfg.Debug, "INFO", <<"SABnzbd status fetched successfully">>,
                                r, cfg.LogClientInfo)]
    ELSE [resp |-> [code |-> 200, body |-> <<>>, tmpl |-> "status.html",
                    data |-> f.status],
          lines |-> debugLog(cfg.Debug, "INFO", <<"SABnzbd status fetched successfully">>,
                             r, cfg.LogClientInfo)]

\* the handler once fetchSabnzbdStatus returned f: the response and the lines
StatusFinish(cfg, r, f) ==
    IF f.err # NoErr
    THEN [resp |-> [code |-> 500, body |-> GenericError, tmpl |-> "", data |-> <<>>],
          lines |-> debugLog(cfg.Debug, "ERROR", <<"Failed to fetch status: ">> \o f.err,
                             r, cfg.LogClientInfo)]
    ELSE [resp |-> [code |-> 200, body |-> <<>>, tmpl |-> "status.html",
                    data |-> f.status],
          lines |-> debugLog(cfg.Debug, "INFO", <<"SABnzbd status fetched successfully">>,
                             r, cfg.LogClientInfo)]

----------------------------------------------------------------------------
(* The inputs tried *)

EnvChars == {"0", "7", "-", "x"}

\* the values of one environment variable tried when resolving configuration
RefreshValues == UNION {[1..k -> EnvChars] : k \in 0..MaxEnvLen}

BoolValues == {<<>>, <<"1">>, <<"0">>, <<"t", "r", "u", "e">>, <<"T", "r", "U", "E">>}

FileConfigs ==
    [SabnzbdURL : {<<>>, <<"g">>}, SabnzbdAPIKey : {<<>>, <<"f">>},
     RefreshInterval : {0, 3}, Debug : BOOLEAN, LogClientInfo : BOOLEAN]

\* config.json: absent (or no working directory) it holds nothing; present,
\* it decodes fully (ok) or in part before a type error (unparsable)
Files(cfgs) ==
    {[state |-> "nocwd", cfg |-> ZeroConfig], [state |-> "missing", cfg |-> ZeroConfig]}
    \cup [state : {"unparsable", "ok"}, cfg : cfgs]

\* the environments and files a whole run of the server is started from
ServerEnvs ==
    [url : {<<>>, <<"h">>}, key : {<<>>, <<"k">>}, refresh : {<<>>},
     debug : {<<>>, <<"1">>}, lci : {<<>>, <<"1">>}]

ServerFiles ==
    {[state |-> "missing", cfg |-> ZeroConfig],
     [state |-> "unparsable", cfg |-> [ZeroConfig EXCEPT !.SabnzbdURL = <<"g">>]],
     [state |-> "ok",
      cfg |-> [SabnzbdURL |-> <<"g">>, SabnzbdAPIKey |-> <<"f">>,
               RefreshInterval |-> 0, Debug |-> FALSE, LogClientInfo |-> FALSE]]}

\* /, /status, /x, /static, /static/css/style.css, //status, /status/
Paths ==
    {Root, <<"status">>, <<"x">>, <<"static">>, <<"static", "css", "style.css">>,
     <<"", "status">>, <<"status", "">>}

Clients ==
    {[method |-> "GET", xff |-> <<>>, addr |-> <<"1", ".", "2", ":", "8">>],
     [method |-> "POST", xff |-> <<"9", ",", "8">>,
      addr |-> <<"[", ":", ":", "1", "]", ":", "8">>]}

Bodies ==
    {[data |-> <<"{", "s", "q", "}">>, term |-> "EOF"],
     [data |-> <<"{", "s">>, term |-> "ERR"],
     [data |-> <<"null">>, term |-> "ERR"],
     [data |-> <<"x">>, term |-> "EOF"]}

Replies ==
    {[kind |-> "connfail", code |-> 0, body |-> NoReply.body],
     [kind |-> "timeout", code |-> 0, body |-> NoReply.body],
     [kind |-> "resp", code |-> 500, body |-> [data |-> <<"{", "s", "q", "}">>,
                                               term |-> "EOF"]]}
    \cup [kind : {"resp"}, code : {StatusOK}, body : Bodies]

\* the Timeout of the http.Client, in seconds; zero would mean no timeout
ClientTimeout == 5

\* how the SABnzbd server may behave: it answers or refuses in any of the
\* ways tried, it takes the connection and never answers, or it sends the
\* header and the start of the body and then nothing more
Upstreams == {"live", "silent", "stalling"}

ClientReplies_NoTimeout(upstream) ==
    IF upstream = "live" THEN {reply \in Replies : reply.kind # "timeout"} ELSE {}

\* what the client can come back with: a wait on a silent or stalling server
\* is ended by the timeout alone, which covers the connection, the header
\* and the reading of the body
ClientReplies(upstream) ==
    IF upstream = "silent"
    THEN {reply \in Replies : ClientTimeout > 0 /\ reply.kind = "timeout"}
    ELSE IF upstream = "stalling"
    THEN {reply \in Replies : /\ ClientTimeout > 0
                              /\ reply.kind = "resp"
                              /\ reply.code = StatusOK
                              /\ reply.body.term = "ERR"}
    ELSE {reply \in Replies : reply.kind = "timeout" => ClientTimeout > 0}

\* requests handed to getClientIP on its own
IPRequests ==
    [present : {TRUE}, method : {"GET"}, path : {Root},
     xff : {<<>>, <<"9">>, <<"9", ",", "8">>, <<"9", ",", " ", "8">>, <<",", "8">>},
     addr : {<<"1", ":", "8">>, <<"1", ".", "2", ":", "8">>, <<"1", ".", "2", ":", "8", "0">>,
             <<"[", ":", ":", "1", "]", ":", "8">>, <<"[", "f", ":", ":", "1", "]", ":", "8">>,
             <<"h", ":", "8">>, <<"h", ".", "x", ":", "8">>, <<"1", "0", ":", "8">>,
             <<"1", ".", "2", ".", "3", ":", "8">>, <<"[", "1", ":", "2", "]", ":", "8">>,
             <<"1", "2", ":", "8">>, <<"h", "1", ":", "8">>}]

----------------------------------------------------------------------------
(* The state machine *)

ReqIds == 1..MaxRequests

NoFetch == [status |-> NilStatus, err |-> NoErr, bodyRead |-> FALSE]

IdleRequest ==
    [pc |-> "idle", r |-> NilRequest, reply |-> NoReply, fetch |-> NoFetch,
     resp |-> NoResponse]

InitWith(e, f, w) ==
    /\ env = e
    /\ file = f
    /\ world = w
    /\ pc = "start"
    /\ exit = "none"
    /\ config = ZeroConfig
    /\ loadErr = NoErr
    /\ routes = {}
    /\ log = <<>>
    /\ reqs = [i \in ReqIds |-> IdleRequest]
    /\ accepted = 0
    /\ calls = [i \in ReqIds |-> 0]
    /\ ipIn = NilRequest
    /\ ipOut = <<>>

\* every environment with no config.json; with a config.json that parses,
\* the environment that only turns debug on; with one that does not, the
\* environments that turn debug on and give the URL
ServerStarts ==
    {s \in [env : ServerEnvs, file : ServerFiles] :
        \/ s.file.state = "missing"
        \/ /\ s.env.debug = <<"1">> /\ s.env.lci = <<>>
           /\ s.file.state = "ok" => s.env.url = <<>> /\ s.env.key = <<>>
           /\ s.file.state = "unparsable" => s.env.url # <<>>}

Init ==
    \E s \in ServerStarts, w \in [templates : BOOLEAN, portFree : BOOLEAN, upstream : {"live"}] :
        InitWith(s.env, s.file, w)

\* main, lines 191-204: LoadConfig, then the fatal exit or the startup lines
Startup ==
    /\ pc = "start"
    /\ LET l == LoadConfig(file, env)
       IN  /\ config' = l.config
           /\ loadErr' = l.err
           /\ IF l.err # NoErr
              THEN /\ log' = log \o l.lines \o <<FatalConfigLine(l.err)>>
                   /\ pc' = "exited"
                   /\ exit' = "config"
              ELSE /\ log' = log \o l.lines \o StartupLines(l.config)
                   /\ pc' = "loaded"
                   /\ exit' = exit
    /\ UNCHANGED <<env, file, world, routes, reqs, accepted, calls, ipIn, ipOut>>

\* main, lines 206-247: the templates are parsed (template.Must panics when
\* they are not there), then the routes are registered
RegisterRoutes ==
    /\ pc = "loaded"
    /\ IF world.templates
       THEN /\ routes' = AllRoutes
            /\ pc' = "routed"
            /\ exit' = exit
       ELSE /\ routes' = routes
            /\ pc' = "exited"
            /\ exit' = "panic"
    /\ UNCHANGED <<env, file, world, config, loadErr, log, reqs, accepted, calls,
                   ipIn, ipOut>>

\* main, lines 249-251: log.Fatal(http.ListenAndServe(...))
Listen ==
    /\ pc = "routed"
    /\ IF world.portFree
       THEN /\ log' = log \o << <<"Server starting on http://localhost:">> \o AppPort >>
            /\ pc' = "serving"
            /\ exit' = exit
       ELSE /\ log' = log \o << <<"Server starting on http://localhost:">> \o AppPort,
                                <<"listen tcp :">> \o AppPort
                                \o <<": bind: address already in use">> >>
            /\ pc' = "exited"
            /\ exit' = "listen"
    /\ UNCHANGED <<env, file, world, config, loadErr, routes, reqs, accepted, calls,
                   ipIn, ipOut>>

\* one request through loggingMiddleware, the mux and its handler, to the
\* response or, for /status, to the call of client.Get
Serve(i) ==
    /\ pc = "serving"
    /\ i = accepted + 1
    /\ accepted' = i
    /\ \E p \in Paths, c \in Clients :
         LET r  == [present |-> TRUE, method |-> c.method, path |-> p,
                    xff |-> c.xff, addr |-> c.addr]
             d  == Dispatch(routes, p)
             mw == MiddlewareLines(config, r)
             done(resp) == [reqs EXCEPT ![i] = [pc |-> "done", r |-> r,
                                                reply |-> NoReply, fetch |-> NoFetch,
                                                resp |-> resp]]
         IN  IF d.kind = "redirect"
             THEN /\ reqs' = done(RedirectResponse(d.to))
                  /\ log' = log \o mw
                  /\ calls' = calls
             ELSE IF d.to = <<"/status">>
             THEN /\ reqs' = [reqs EXCEPT ![i] = [pc |-> "awaiting", r |-> r,
                                                  reply |-> NoReply, fetch |-> NoFetch,
                                                  resp |-> NoResponse]]
                  /\ log' = log \o mw \o StatusStartLines(config, r)
                  /\ calls' = [calls EXCEPT ![i] = @ + 1]
             ELSE IF d.to = <<"/static/">>
             THEN /\ reqs' = done(StaticResponse(p))
                  /\ log' = log \o mw
                  /\ calls' = calls
             ELSE IF d.to = <<"/">>
             THEN /\ reqs' = done(IndexResponse(config, r))
                  /\ log' = log \o mw \o IndexLines(config, r)
                  /\ calls' = calls
             ELSE /\ reqs' = done(NotFoundResponse)
                  /\ log' = log \o mw
                  /\ calls' = calls
    /\ UNCHANGED <<env, file, world, pc, exit, config, loadErr, routes, ipIn, ipOut>>

UpstreamReply_SharedStatus(i) ==
    /\ pc = "serving"
    /\ reqs[i].pc = "awaiting"
    /\ \E reply \in ClientReplies(world.upstream) :
         LET others == {j \in ReqIds : j # i /\ reqs[j].pc = "done"
                                       /\ reqs[j].reply.kind # "none"}
             shared == IF others = {} THEN reply
                       ELSE reqs[CHOOSE j \in others : TRUE].reply
             f == FetchFinish(config, reply)
             h == StatusFinish(config, reqs[i].r, FetchFinish(config, shared))
         IN  /\ reqs' = [reqs EXCEPT ![i] =
                            [pc |-> "done", r |-> reqs[i].r, reply |-> reply,
                             fetch |-> [status |-> f.status, err |-> f.err,
                                        bodyRead |-> f.bodyRead],
                             resp |-> h.resp]]
             /\ log' = log \o f.lines \o h.lines
    /\ UNCHANGED <<env, file, world, pc, exit, config, loadErr, routes, accepted,
                   calls, ipIn, ipOut>>

\* client.Get returns, and fetchSabnzbdStatus and the /status handler run to
\* the response
UpstreamReply(i) ==
    /\ pc = "serving"
    /\ reqs[i].pc = "awaiting"
    /\ \E reply \in ClientReplies(world.upstream) :
         LET f == FetchFinish(config, reply)
             h == StatusFinish(config, reqs[i].r, f)
         IN  /\ reqs' = [reqs EXCEPT ![i] =
                            [pc |-> "done", r |-> reqs[i].r, reply |-> reply,
                             fetch |-> [status |-> f.status, err |-> f.err,
                                        bodyRead |-> f.bodyRead],
                             resp |-> h.resp]]
             /\ log' = log \o f.lines \o h.lines
    /\ UNCHANGED <<env, file, world, pc, exit, config, loadErr, routes, accepted,
                   calls, ipIn, ipOut>>

Next ==
    \/ Startup
    \/ RegisterRoutes
    \/ Listen
    \/ \E i \in ReqIds : Serve(i)
    \/ \E i \in ReqIds : UpstreamReply(i)

Spec == Init /\ [][Next]_vars

(* The server with a SABnzbd server that may never answer or may stall in
   the body.  client.Get and the reads of the body return when the server
   answers or when the client's timer fires, and the goroutine of the request
   then runs on: the step that ends the wait is taken once it can be. *)

\* the starts that reach serving with no config.json and client logging
\* off; debug, which decides how the body is read, is tried on and off with
\* the server that stalls in the body
InitLive ==
    \E s \in ServerStarts, up \in Upstreams :
        /\ s.file.state = "missing"
        /\ s.env.url # <<>> /\ s.env.key # <<>> /\ s.env.lci = <<>>
        /\ up # "stalling" => s.env.debug = <<>>
        /\ InitWith(s.env, s.file, [templates |-> TRUE, portFree |-> TRUE,
                                    upstream |-> up])

SpecLive ==
    /\ InitLive
    /\ [][Next]_vars
    /\ \A i \in ReqIds : WF_vars(UpstreamReply(i))

(* Configuration resolution on its own, over every environment and file tried *)

InitConfig ==
    \E e \in [url : {<<>>, <<"h">>}, key : {<<>>, <<"k">>}, refresh : RefreshValues,
              debug : BoolValues, lci : {<<>>, <<"1">>}],
       f \in Files(FileConfigs) :
         InitWith(e, f, [templates |-> TRUE, portFree |-> TRUE, upstream |-> "live"])

NextConfig == Startup

SpecConfig == InitConfig /\ [][NextConfig]_vars

(* getClientIP on its own *)

InitIP ==
    \E r \in IPRequests :
        /\ env = [url |-> <<>>, key |-> <<>>, refresh |-> <<>>, debug |-> <<>>,
                  lci |-> <<>>]
        /\ file = [state |-> "missing", cfg |-> ZeroConfig]
        /\ world = [templates |-> TRUE, portFree |-> TRUE, upstream |-> "live"]
        /\ pc = "probe"
        /\ exit = "none"
        /\ config = ZeroConfig
        /\ loadErr = NoErr
        /\ routes = {}
        /\ log = <<>>
        /\ reqs = [i \in ReqIds |-> IdleRequest]
        /\ accepted = 0
        /\ calls = [i \in ReqIds |-> 0]
        /\ ipIn = r
        /\ ipOut = <<>>

ClientIP ==
    /\ pc = "probe"
    /\ ipOut = <<>>
    /\ ipOut' = <<getClientIP(ipIn)>>
    /\ UNCHANGED <<env, file, world, pc, exit, config, loadErr, routes, log, reqs,
                   accepted, calls, ipIn>>

NextIP == ClientIP

SpecIP == InitIP /\ [][NextIP]_vars

----------------------------------------------------------------------------
(* The claims *)

HasLine(line) == \E k \in 1..Len(log) : log[k] = line

Done(i) == reqs[i].pc = "done"

\* the status handler ran to its response for request i
StatusDone(i) == Done(i) /\ reqs[i].reply.kind # "none"

\* what config.json contributes, and the fields as they stand after the
\* environment overlay
FileURL == IF file.state \in {"ok", "unparsable"} THEN file.cfg.SabnzbdURL ELSE <<>>
FileKey == IF file.state \in {"ok", "unparsable"} THEN file.cfg.SabnzbdAPIKey ELSE <<>>
FileRefresh == IF file.state \in {"ok", "unparsable"} THEN file.cfg.RefreshInterval ELSE 0
OverlaidURL == IF env.url # <<>> THEN env.url ELSE FileURL
OverlaidKey == IF env.key # <<>> THEN env.key ELSE FileKey
OverlaidRefresh == IF Atoi(env.refresh).ok THEN Atoi(env.refresh).val ELSE FileRefresh

\* C1: no line of the log contains the configured API key, at startup and
\* after any sequence of requests, whatever the upstream did.
C1_NoKeyInLog ==
    config.SabnzbdAPIKey # <<>> =>
        \A k \in 1..Len(log) : ~Contains(log[k], config.SabnzbdAPIKey)

\* C2, as claimed: each of the five variables, when set and not empty, gives
\* the resolved field its value, whatever the file holds.
C2_EnvAlwaysWins ==
    pc # "start" =>
        /\ env.url # <<>> => config.SabnzbdURL = env.url
        /\ env.key # <<>> => config.SabnzbdAPIKey = env.key
        /\ env.refresh # <<>> =>
              Atoi(env.refresh).ok /\ config.RefreshInterval = Atoi(env.refresh).val
        /\ env.debug # <<>> => config.Debug = EnvBool(env.debug)
        /\ env.lci # <<>> => config.LogClientInfo = EnvBool(env.lci)

\* C2, amended: URL, key, debug and client logging take the environment's
\* value whenever it is set and not empty; the refresh interval takes it when
\* it is a positive integer, is 5 after a successful resolution when it is an
\* integer <= 0, and when it is no integer the file's interval stands (5 in
\* its place after a successful resolution when that is <= 0).
C2_EnvPrecedence ==
    pc # "start" =>
        /\ env.url # <<>> => config.SabnzbdURL = env.url
        /\ env.key # <<>> => config.SabnzbdAPIKey = env.key
        /\ env.debug # <<>> =>
              config.Debug = (env.debug = <<"1">> \/ ToLower(env.debug) = <<"t", "r", "u", "e">>)
        /\ env.lci # <<>> =>
              config.LogClientInfo = (env.lci = <<"1">> \/ ToLower(env.lci) = <<"t", "r", "u", "e">>)
        /\ env.refresh # <<>> =>
              IF Atoi(env.refresh).ok
              THEN IF Atoi(env.refresh).val > 0
                   THEN config.RefreshInterval = Atoi(env.refresh).val
                   ELSE loadErr = NoErr => config.RefreshInterval = 5
              ELSE IF FileRefresh > 0 THEN config.RefreshInterval = FileRefresh
                   ELSE loadErr = NoErr => config.RefreshInterval = 5

\* C2: a resolution in which the environment sets all five variables against
\* a file that was read and holds other values
C2_Witness ==
    /\ pc = "loaded"
    /\ file.state = "ok"
    /\ env.url # <<>> /\ file.cfg.SabnzbdURL \notin {<<>>, env.url}
    /\ env.key # <<>> /\ file.cfg.SabnzbdAPIKey \notin {<<>>, env.key}
    /\ Atoi(env.refresh).ok /\ Atoi(env.refresh).val > 0
    /\ file.cfg.RefreshInterval \notin {0, Atoi(env.refresh).val}
    /\ env.debug # <<>> /\ file.cfg.Debug # config.Debug
    /\ env.lci # <<>> /\ file.cfg.LogClientInfo # config.LogClientInfo

\* C3: resolution returns an error exactly when the URL or the API key is
\* empty after the overlay: the URL error whenever the URL is empty, the key
\* error when only the key is, and none when both are there, whatever the
\* refresh interval, debug and client logging are.
C3_ErrorIffUrlOrKeyEmpty ==
    pc # "start" =>
        /\ config.SabnzbdURL = OverlaidURL /\ config.SabnzbdAPIKey = OverlaidKey
        /\ OverlaidURL = <<>> =>
              loadErr = <<"sabnzbd URL is required (set via config or ",
                          "SABMON_SABNZBD_URL", ")">>
        /\ OverlaidURL # <<>> /\ OverlaidKey = <<>> =>
              loadErr = <<"sabnzbd API key is required (set via config or ",
                          "SABMON_SABNZBD_API_KEY", ")">>
        /\ OverlaidURL # <<>> /\ OverlaidKey # <<>> => loadErr = NoErr

\* C3: a resolution that failed on the key alone
C3_Witness ==
    /\ pc = "exited"
    /\ loadErr # NoErr
    /\ config.SabnzbdURL # <<>>
    /\ config.SabnzbdAPIKey = <<>>
    /\ config.RefreshInterval > 0

\* C4: with URL and key there, validation succeeds and leaves the refresh
\* interval 5 when it was <= 0 and as it was when it was > 0; the interval of
\* every configuration resolved without error is > 0.
C4_RefreshCoercedToFive ==
    /\ pc # "start" /\ OverlaidURL # <<>> /\ OverlaidKey # <<>> =>
          /\ loadErr = NoErr
          /\ config.RefreshInterval = IF OverlaidRefresh <= 0 THEN 5 ELSE OverlaidRefresh
    /\ pc # "start" /\ loadErr = NoErr => config.RefreshInterval > 0

\* C4: a resolution whose interval was negative after the overlay and is 5
C4_Witness ==
    /\ pc = "loaded"
    /\ OverlaidRefresh < 0
    /\ config.RefreshInterval = 5

\* C5: when fetchSabnzbdStatus returned an error to the /status handler, the
\* response is 500 with the fixed body, which contains neither the API key
\* nor the error's text, no template is rendered, and the error is in the
\* log; and the fetch does return an error after a connection failure, a
\* timeout, a status other than 200 and a body that is no JSON.
C5_FailureIsGeneric500 ==
    \A i \in ReqIds :
        StatusDone(i) =>
            /\ reqs[i].fetch.err # NoErr =>
                  /\ reqs[i].resp.code = 500
                  /\ reqs[i].resp.body = <<"Failed to fetch status">>
                  /\ ~Contains(reqs[i].resp.body, config.SabnzbdAPIKey)
                  /\ ~Contains(reqs[i].resp.body, reqs[i].fetch.err)
                  /\ reqs[i].resp.tmpl = ""
                  /\ reqs[i].resp.data = <<>>
                  /\ HasLine(<<"[", "ERROR", "] ", "Failed to fetch status: ">>
                             \o reqs[i].fetch.err)
            /\ (\/ reqs[i].reply.kind \in {"connfail", "timeout"}
                \/ reqs[i].reply.code # 200
                \/ reqs[i].reply.body.data = <<"x">>) => reqs[i].fetch.err # NoErr

\* C5: a /status request answered after the connection to the upstream failed
C5_Witness ==
    \E i \in ReqIds :
        /\ StatusDone(i)
        /\ reqs[i].reply.kind = "connfail"
        /\ reqs[i].resp.code = 500

\* C6: after a response whose status is not 200, fetchSabnzbdStatus returns
\* nil and an error that carries the status code, and has not read the body,
\* whatever the body holds.
C6_Non200IsError ==
    \A i \in ReqIds :
        StatusDone(i) /\ reqs[i].reply.kind = "resp" /\ reqs[i].reply.code # 200 =>
            /\ reqs[i].fetch.status = NilStatus
            /\ reqs[i].fetch.err # NoErr
            /\ Contains(reqs[i].fetch.err, Itoa(reqs[i].reply.code))
            /\ ~reqs[i].fetch.bodyRead

\* C6: a 500 response whose body is a well-formed queue JSON
C6_Witness ==
    \E i \in ReqIds :
        /\ StatusDone(i)
        /\ reqs[i].reply.kind = "resp"
        /\ reqs[i].reply.code = 500
        /\ reqs[i].reply.body = [data |-> <<"{", "s", "q", "}">>, term |-> "EOF"]

\* what a caller tells apart: the status returned, and whether there is an error
Outcome(f) == [status |-> f.status, failed |-> f.err # NoErr]

\* C7: for the reply a request got, fetchSabnzbdStatus with Debug the other
\* way round returns the same outcome as it did: the same status, or an
\* error both times.
C7_DebugSameOutcome ==
    \A i \in ReqIds :
        StatusDone(i) =>
            Outcome(FetchFinish([config EXCEPT !.Debug = ~config.Debug], reqs[i].reply))
                = Outcome(reqs[i].fetch)

\* the remote address without its last colon and the port after it
HostOf(addr) ==
    LET S == Occurrences(addr, <<":">>)
    IN  IF S = {} THEN addr
        ELSE SubSeq(addr, 1, (CHOOSE x \in S : \A y \in S : y <= x) - 1)

\* the header's text before its first comma
FirstEntry(h) ==
    IF \E j \in 1..Len(h) : h[j] = ","
    THEN SubSeq(h, 1, (CHOOSE j \in 1..Len(h) :
                          h[j] = "," /\ \A m \in 1..(j - 1) : h[m] # ",") - 1)
    ELSE h

\* C8: getClientIP returns the first entry of X-Forwarded-For when the header
\* is there and not empty, and else the remote address host:port without
\* its port.
C8_ClientIP ==
    ipOut # <<>> =>
        ipOut[1] = IF ipIn.xff # <<>> THEN FirstEntry(ipIn.xff) ELSE HostOf(ipIn.addr)

UnderStatic(p) == Len(p) >= 2 /\ p[1] = "static"

\* a path with an empty segment before its end, or a . or .. segment
NonCanonical(p) ==
    \E j \in 1..Len(p) : p[j] \in {".", ".."} \/ (p[j] = "" /\ j < Len(p))

\* C9, as claimed: a request whose path is not /, not /status and not under
\* /static/ is answered 404, renders no template and makes no upstream call;
\* only a request to /status makes one.
C9_NotFoundByDefault ==
    \A i \in ReqIds :
        /\ Done(i) /\ reqs[i].r.path \notin {Root, <<"status">>}
              /\ ~UnderStatic(reqs[i].r.path) =>
              /\ reqs[i].resp.code = 404
              /\ reqs[i].resp.tmpl = ""
              /\ calls[i] = 0
        /\ calls[i] > 0 => reqs[i].r.path = <<"status">>

\* C9, amended: such a request renders no template and makes no upstream
\* call, and is answered 404, or with a 301 redirect when its path is
\* /static or is not in canonical form; only a request to /status makes an
\* upstream call.
C9_NotFoundOrRedirect ==
    \A i \in ReqIds :
        /\ Done(i) /\ reqs[i].r.path \notin {Root, <<"status">>}
              /\ ~UnderStatic(reqs[i].r.path) =>
              /\ reqs[i].resp.code =
                    IF reqs[i].r.path = <<"static">> \/ NonCanonical(reqs[i].r.path)
                    THEN 301 ELSE 404
              /\ reqs[i].resp.tmpl = ""
              /\ calls[i] = 0
        /\ calls[i] > 0 => reqs[i].r.path = <<"status">>

\* C9: /status/ answered 404 and /static answered with a redirect
C9_Witness ==
    \E i, j \in ReqIds :
        /\ Done(i) /\ reqs[i].r.path = <<"status", "">> /\ reqs[i].resp.code = 404
        /\ Done(j) /\ reqs[j].r.path = <<"static">> /\ reqs[j].resp.code = 301

C10_WitnessServing ==
    /\ pc = "serving"
    /\ file.state = "unparsable"
    /\ accepted > 0

\* the request was routed to the /status handler
ToStatus(i) == reqs[i].pc \in {"awaiting", "done"} /\ reqs[i].r.path = <<"status">>

\* the status a body holds when the pieces delivered make up a whole JSON
\* value, and the empty sequence when they do not
WholeValue(data) ==
    IF data = <<"null">> THEN <<ZeroStatus>>
    ELSE IF Len(data) >= 2 /\ data[1] = "{" /\ data[Len(data)] = "}"
              /\ \A j \in 2..(Len(data) - 1) : data[j] \in {"s", "q"}
    THEN << [Status |-> IF \E j \in 1..Len(data) : data[j] = "s" THEN "ok" ELSE "",
             Slots  |-> IF \E j \in 1..Len(data) : data[j] = "q"
                        THEN <<[Filename |-> "test_file.mkv", Percentage |-> "75"]>>
                        ELSE <<>>] >>
    ELSE <<>>

C12_EveryRequestAnswered ==
    /\ [](\A i \in ReqIds :
            /\ i <= accepted => reqs[i].pc \in {"awaiting", "done"}
            /\ Done(i) => reqs[i].resp.code # 0)
    /\ \A i \in ReqIds :
          (reqs[i].pc = "awaiting") ~> (Done(i) /\ reqs[i].resp.code # 0)

\* C12: a /status request to a server that never answers, ended by the
\* timeout and answered with the error response
C12_Witness ==
    \E i \in ReqIds :
        /\ world.upstream = "silent"
        /\ StatusDone(i)
        /\ reqs[i].reply.kind = "timeout"
        /\ reqs[i].resp.code = 500

\* C12: the same with a server that stalls in the body
C12_WitnessStall ==
    \E i \in ReqIds :
        /\ world.upstream = "stalling"
        /\ StatusDone(i)
        /\ reqs[i].reply.body.term = "ERR"
        /\ reqs[i].resp.code = 500

\* C13: once LoadConfig has returned no step changes the configuration; a
\* step changes the record and the upstream call count of one request at
\* most and leaves an answered request as it is; and the response of every
\* /status request is the one its own upstream reply gives under the
\* configuration, whatever other requests were in flight or answered before,
\* so two requests with the same reply have the same response.
C13_RequestsIndependent ==
    /\ [][/\ pc # "start" => config' = config
          /\ \A i \in ReqIds : Done(i) => reqs'[i] = reqs[i] /\ calls'[i] = calls[i]
          /\ \A i, j \in ReqIds :
                (reqs'[i] # reqs[i] \/ calls'[i] # calls[i])
                /\ (reqs'[j] # reqs[j] \/ calls'[j] # calls[j]) => i = j]_vars
    /\ [](\A i \in ReqIds :
            StatusDone(i) =>
               reqs[i].resp = StatusFinish(config, reqs[i].r,
                                           FetchFinish(config, reqs[i].reply)).resp)
    /\ [](\A i, j \in ReqIds :
            StatusDone(i) /\ StatusDone(j) /\ reqs[i].reply = reqs[j].reply =>
               reqs[i].resp = reqs[j].resp)

\* C13: two /status requests in flight together, the later one answered
\* first from its own reply while the earlier one still waits
C13_Witness ==
    /\ reqs[1].pc = "awaiting"
    /\ StatusDone(2)
    /\ reqs[2].resp.code = 200
    /\ calls[1] = 1

\* C13: both answered, the earlier one with the error response after the
\* later one was rendered
C13_WitnessBoth ==
    /\ StatusDone(1) /\ reqs[1].resp.code = 500
    /\ StatusDone(2) /\ reqs[2].resp.code = 200

\* a line of the given level
IsLevel(line, level) == Len(line) >= 3 /\ line[1] = "[" /\ line[2] = level

\* a line of the given level whose message starts with the given piece
StartsWith(line, level, piece) ==
    IsLevel(line, level) /\ Len(line) >= 4 /\ line[4] = piece

\* the middleware's line for a request with this method and path
RequestLine(method, path) == <<"[", "INFO", "] ", "Request: ", method, " ">> \o PathText(path)

C14_WitnessDebugOn ==
    /\ config.Debug
    /\ \E i \in ReqIds : StatusDone(i) /\ reqs[i].resp.code = 200
    /\ \E k \in 1..Len(log) : IsLevel(log[k], "DEBUG")

============================================================================
